---- MODULE Spec2Model ----
(***************************************************************************)
(* Model of the changepoint aggregator (scripts/detect_changepoints.py)    *)
(* and of the session classifier (scripts/detect_sessions.py).             *)
(*                                                                         *)
(* Timestamps are integers counted in ticks of half an hour: the rows of   *)
(* an hourly table sit on even ticks, and the median of two hourly         *)
(* timestamps is again a whole number of ticks.                            *)
(***************************************************************************)
EXTENDS Integers, Sequences, FiniteSets, TLC

VARIABLES
    pc,                       \* position of the running call
    raised,                   \* "none", or the exception that ended the call
    \* ---- detect_changepoints: parameters
    features_df,              \* [axis, nrows, columns, notna]
    method, min_size_hours, merge_tolerance_hours, n_contributing_features,
    \* ---- detect_changepoints: locals
    col,                      \* position of the column loop (1-based)
    detected,                 \* per processed column: the detector's `result`
    breakpoints_per_feature,  \* insertion-ordered dict: <<[feat, bkps]>>
    bkp_records, used, i, aggregated_groups,
    gi,                       \* position of the filter loop (1-based)
    aggregated_breakpoints, contrib_features_dict,
    \* ---- detect_sessions: parameters and locals
    df, threshold, si, sessions

vars == <<pc, raised, features_df, method, min_size_hours, merge_tolerance_hours,
          n_contributing_features, col, detected, breakpoints_per_feature,
          bkp_records, used, i, aggregated_groups, gi, aggregated_breakpoints,
          contrib_features_dict, df, threshold, si, sessions>>

cpVars == <<features_df, method, min_size_hours, merge_tolerance_hours,
            n_contributing_features>>
sessVars == <<df, threshold, si, sessions>>

-----------------------------------------------------------------------------
(* Bounds of the model *)

MaxRows == 4          \* rows of the feature table
MaxTolHours == 1      \* largest merge_tolerance_hours tried
MaxHour == 2          \* last "near" hour of the load table
MaxBkps == 3          \* longest breakpoint list handed to detect_sessions

(* Units and program constants *)

TicksPerHour == 2
WindowHours == 2
MaxSessionHours == 24

Hours(h) == h * TicksPerHour

FeatureNames == <<"total_kwh", "max_kw">>
KnownMethods == {"pelt", "binseg", "window", "bottomup"}
Methods == KnownMethods \cup {"lasso"}
MinSizes == {1, 2}
MinFeatures == {1, 2}

-----------------------------------------------------------------------------
(* Generic helpers *)

Range(s) == {s[x] : x \in DOMAIN s}

Abs(x) == IF x < 0 THEN -x ELSE x

MinOf(S) == CHOOSE x \in S : \A y \in S : x <= y
MaxOf(S) == CHOOSE x \in S : \A y \in S : x >= y

RECURSIVE AscendingSeq(_)
AscendingSeq(S) ==
    IF S = {} THEN <<>> ELSE <<MinOf(S)>> \o AscendingSeq(S \ {MinOf(S)})

AllButLast(s) == SubSeq(s, 1, Len(s) - 1)

-----------------------------------------------------------------------------
(* The feature table *)

\* features_df.index[k], k counted from 0: the shared hourly axis
IndexAt(k) == Hours(k)

\* features_df[column].dropna(): the positions (from 0) of the retained samples
Retained(column) == AscendingSeq(features_df.notna[column])

\* len(signal)
SignalLen(column) == Cardinality(features_df.notna[column])

\* the same test with one segment length for two
TooShortForOneSegment(column) == SignalLen(column) < min_size_hours

\* len(signal) < 2 * min_size_hours
TooShort(column) == SignalLen(column) < 2 * min_size_hours

\* what algo.predict(pen=penalty) may return for a signal of length n: strictly
\* increasing indices into the signal, closed by the sentinel n
DetectorResults(n) ==
    {AscendingSeq(S) \o <<n>> : S \in SUBSET (1 .. n - 1)}

\* line 65: the timestamp given to detector index bkp of a column
BkpTimestampOwnAxis(column, bkp) == IndexAt(Retained(column)[bkp + 1])
BkpTimestamp(column, bkp) == IndexAt(bkp)

-----------------------------------------------------------------------------
(* Merging *)

\* the comprehension of line 68: records in dict order, each feature's in order
RECURSIVE Flatten(_)
Flatten(d) ==
    IF d = <<>> THEN <<>>
    ELSE [x \in 1 .. Len(d[1].bkps) |-> [t |-> d[1].bkps[x], feat |-> d[1].feat]]
         \o Flatten(Tail(d))

\* insert r after the last record whose timestamp is <= r.t (stable)
RECURSIVE InsertStable(_, _)
InsertStable(s, r) ==
    IF s = <<>> THEN <<r>>
    ELSE IF s[Len(s)].t <= r.t THEN Append(s, r)
    ELSE Append(InsertStable(AllButLast(s), r), s[Len(s)])

\* the records left in dict order
InDictOrder(recs) == recs

\* sorted(bkp_records, key=lambda x: x[0])
RECURSIVE Sorted(_)
Sorted(recs) ==
    IF recs = <<>> THEN <<>>
    ELSE InsertStable(Sorted(AllButLast(recs)), recs[Len(recs)])

\* pd.Timedelta(hours=merge_tolerance_hours)
ToleranceMerge == Hours(merge_tolerance_hours)

\* the inner loop of lines 78-82, from position j on, anchored on the latest
\* member of the group instead of the seed
RECURSIVE InnerLoopChained(_, _, _, _, _, _)
InnerLoopChained(recs, u, seed, j, group, tol) ==
    IF j > Len(recs) THEN [group |-> group, used |-> u]
    ELSE IF u[j] THEN InnerLoopChained(recs, u, seed, j + 1, group, tol)
    ELSE IF Abs(recs[j].t - group[Len(group)].t) <= tol
         THEN InnerLoopChained(recs, [u EXCEPT ![j] = TRUE], seed, j + 1,
                               Append(group, recs[j]), tol)
         ELSE InnerLoopChained(recs, u, seed, j + 1, group, tol)

\* the inner loop of lines 78-82, from position j on
RECURSIVE InnerLoop(_, _, _, _, _, _)
InnerLoop(recs, u, seed, j, group, tol) ==
    IF j > Len(recs) THEN [group |-> group, used |-> u]
    ELSE IF u[j] THEN InnerLoop(recs, u, seed, j + 1, group, tol)
    ELSE IF Abs(recs[j].t - recs[seed].t) <= tol
         THEN InnerLoop(recs, [u EXCEPT ![j] = TRUE], seed, j + 1,
                        Append(group, recs[j]), tol)
         ELSE InnerLoop(recs, u, seed, j + 1, group, tol)

\* the outer loop of lines 74-83, from position x on
RECURSIVE GroupLoop(_, _, _, _, _)
GroupLoop(recs, u, x, groups, tol) ==
    IF x > Len(recs) THEN groups
    ELSE IF u[x] THEN GroupLoop(recs, u, x + 1, groups, tol)
    ELSE LET done == InnerLoop(recs, [u EXCEPT ![x] = TRUE], x, x + 1,
                               <<recs[x]>>, tol)
         IN GroupLoop(recs, done.used, x + 1, Append(groups, done.group), tol)

-----------------------------------------------------------------------------
(* Filtering *)

\* {feat for _, feat in group}
FeaturesInGroup(group) == {group[x].feat : x \in DOMAIN group}

\* [bkp for bkp, _ in group]
Timestamps(group) == [x \in DOMAIN group |-> group[x].t]

RECURSIVE SortInts(_)
SortInts(s) ==
    IF s = <<>> THEN <<>>
    ELSE LET rest == SortInts(AllButLast(s))
             v == s[Len(s)]
             k == Cardinality({x \in DOMAIN rest : rest[x] <= v})
         IN SubSeq(rest, 1, k) \o <<v>> \o SubSeq(rest, k + 1, Len(rest))

\* pd.Series(timestamps).median(): the middle order statistic, or the mean of
\* the two middle ones
Median(ts) ==
    LET s == SortInts(ts)
        n == Len(s)
    IN IF n % 2 = 1 THEN s[(n + 1) \div 2]
       ELSE (s[n \div 2] + s[n \div 2 + 1]) \div 2

\* the same test counting members, and the same test with = for >=
GroupPassesBySize(group, n) == Len(group) >= n
GroupPassesExactly(group, n) == Cardinality(FeaturesInGroup(group)) = n

\* len(features_in_group) >= n_contributing_features
GroupPasses(group, n) == Cardinality(FeaturesInGroup(group)) >= n

\* lines 89-95 as a function of the groups and the minimum: the medians of the
\* groups that pass, in order
RECURSIVE Consensus(_, _)
Consensus(groups, n) ==
    IF groups = <<>> THEN <<>>
    ELSE LET rest == Consensus(AllButLast(groups), n)
             g == groups[Len(groups)]
         IN IF GroupPasses(g, n) THEN Append(rest, Median(Timestamps(g)))
            ELSE rest

\* lines 68-97 as a function of the per-feature breakpoints, the tolerance in
\* hours and the minimum number of features
Aggregate(per_feature, tol_hours, n) ==
    LET recs == Sorted(Flatten(per_feature))
    IN Consensus(GroupLoop(recs, [x \in DOMAIN recs |-> FALSE], 1, <<>>,
                           Hours(tol_hours)), n)

-----------------------------------------------------------------------------
(* detect_changepoints: the inputs tried *)

ColumnLists == {SubSeq(FeatureNames, 1, n) : n \in 0 .. Len(FeatureNames)}

\* a column keeps all its rows, or misses one of them
NotnaSets(nrows) ==
    {(0 .. nrows - 1) \ M :
        M \in {S \in SUBSET (0 .. nrows - 1) : Cardinality(S) <= 1}}

Tables ==
    UNION {[axis : BOOLEAN, nrows : {n}, columns : ColumnLists,
            notna : [Range(FeatureNames) -> NotnaSets(n)]] : n \in 0 .. MaxRows}

NoTable == [axis |-> TRUE, nrows |-> 0, columns |-> <<>>,
            notna |-> [f \in Range(FeatureNames) |-> {}]]
NoLoad == [axis |-> TRUE, load |-> <<>>]

InitLocals ==
    /\ raised = "none"
    /\ col = 1
    /\ detected = <<>>
    /\ breakpoints_per_feature = <<>>
    /\ bkp_records = <<>>
    /\ used = <<>>
    /\ i = 1
    /\ aggregated_groups = <<>>
    /\ gi = 1
    /\ si = 1
    /\ sessions = <<>>

Init ==
    /\ pc = "start"
    /\ features_df \in Tables
    /\ method \in Methods
    /\ min_size_hours \in MinSizes
    /\ merge_tolerance_hours \in 0 .. MaxTolHours
    /\ n_contributing_features \in MinFeatures
    /\ aggregated_breakpoints = <<>>
    /\ contrib_features_dict = <<>>
    /\ df = NoLoad
    /\ threshold = 0
    /\ InitLocals

-----------------------------------------------------------------------------
(* detect_changepoints: the steps *)

\* lines 35-39: the datetime axis
CheckIndex ==
    /\ pc = "start"
    /\ IF features_df.axis
       THEN /\ pc' = IF features_df.columns = <<>> THEN "merge" ELSE "columns"
            /\ raised' = raised
       ELSE /\ pc' = "error"
            /\ raised' = "ValueError"
    /\ UNCHANGED <<cpVars, col, detected, breakpoints_per_feature, bkp_records,
                   used, i, aggregated_groups, gi, aggregated_breakpoints,
                   contrib_features_dict, sessVars>>

AfterColumn == IF col = Len(features_df.columns) THEN "merge" ELSE "columns"

\* lines 44-47: a column with too few valid samples is skipped
ColumnSkip ==
    /\ pc = "columns"
    /\ TooShort(features_df.columns[col])
    /\ col' = col + 1
    /\ pc' = AfterColumn
    /\ UNCHANGED <<raised, cpVars, detected, breakpoints_per_feature, bkp_records,
                   used, i, aggregated_groups, gi, aggregated_breakpoints,
                   contrib_features_dict, sessVars>>

\* lines 50-61 and 65: the detector runs on the column's signal
ColumnDetect ==
    /\ pc = "columns"
    /\ ~TooShort(features_df.columns[col])
    /\ method \in KnownMethods
    /\ \E predicted \in DetectorResults(SignalLen(features_df.columns[col])) :
          LET column == features_df.columns[col]
              result == AllButLast(predicted)
          IN /\ detected' = Append(detected, [feat |-> column, result |-> result])
             /\ breakpoints_per_feature' =
                   Append(breakpoints_per_feature,
                          [feat |-> column,
                           bkps |-> [x \in DOMAIN result |->
                                        BkpTimestamp(column, result[x])]])
    /\ col' = col + 1
    /\ pc' = AfterColumn
    /\ UNCHANGED <<raised, cpVars, bkp_records, used, i, aggregated_groups, gi,
                   aggregated_breakpoints, contrib_features_dict, sessVars>>

\* lines 62-63: no such method
ColumnUnknownMethod ==
    /\ pc = "columns"
    /\ ~TooShort(features_df.columns[col])
    /\ method \notin KnownMethods
    /\ pc' = "error"
    /\ raised' = "ValueError"
    /\ UNCHANGED <<cpVars, col, detected, breakpoints_per_feature, bkp_records,
                   used, i, aggregated_groups, gi, aggregated_breakpoints,
                   contrib_features_dict, sessVars>>

\* lines 68-72
Merge ==
    /\ pc = "merge"
    /\ bkp_records' = Sorted(Flatten(breakpoints_per_feature))
    /\ used' = [x \in DOMAIN bkp_records' |-> FALSE]
    /\ aggregated_groups' = <<>>
    /\ i' = 1
    /\ pc' = IF bkp_records' = <<>> THEN "filter" ELSE "group"
    /\ UNCHANGED <<raised, cpVars, col, detected, breakpoints_per_feature, gi,
                   aggregated_breakpoints, contrib_features_dict, sessVars>>

AfterGroup == IF i = Len(bkp_records) THEN "filter" ELSE "group"

\* line 75: a record already in a group starts none
GroupSkipUsed ==
    /\ pc = "group"
    /\ used[i]
    /\ i' = i + 1
    /\ pc' = AfterGroup
    /\ UNCHANGED <<raised, cpVars, col, detected, breakpoints_per_feature,
                   bkp_records, used, aggregated_groups, gi,
                   aggregated_breakpoints, contrib_features_dict, sessVars>>

\* lines 76-83: record i seeds a group
GroupSeed ==
    /\ pc = "group"
    /\ ~used[i]
    /\ LET done == InnerLoop(bkp_records, [used EXCEPT ![i] = TRUE], i, i + 1,
                             <<bkp_records[i]>>, ToleranceMerge)
       IN /\ used' = done.used
          /\ aggregated_groups' = Append(aggregated_groups, done.group)
    /\ i' = i + 1
    /\ pc' = AfterGroup
    /\ UNCHANGED <<raised, cpVars, col, detected, breakpoints_per_feature,
                   bkp_records, gi, aggregated_breakpoints, contrib_features_dict,
                   sessVars>>

\* lines 89-95: one group of the filter loop
FilterGroup ==
    /\ pc = "filter"
    /\ gi <= Len(aggregated_groups)
    /\ LET group == aggregated_groups[gi]
           features_in_group == FeaturesInGroup(group)
           median_bkp == Median(Timestamps(group))
       IN IF GroupPasses(group, n_contributing_features)
          THEN /\ aggregated_breakpoints' = Append(aggregated_breakpoints, median_bkp)
               /\ contrib_features_dict' =
                     [t \in DOMAIN contrib_features_dict \cup {median_bkp} |->
                         IF t = median_bkp THEN features_in_group
                         ELSE contrib_features_dict[t]]
          ELSE UNCHANGED <<aggregated_breakpoints, contrib_features_dict>>
    /\ gi' = gi + 1
    /\ UNCHANGED <<pc, raised, cpVars, col, detected, breakpoints_per_feature,
                   bkp_records, used, i, aggregated_groups, sessVars>>

\* line 97
Return ==
    /\ pc = "filter"
    /\ gi > Len(aggregated_groups)
    /\ pc' = "done"
    /\ UNCHANGED <<raised, cpVars, col, detected, breakpoints_per_feature,
                   bkp_records, used, i, aggregated_groups, gi,
                   aggregated_breakpoints, contrib_features_dict, sessVars>>

Next ==
    \/ CheckIndex
    \/ ColumnSkip
    \/ ColumnDetect
    \/ ColumnUnknownMethod
    \/ Merge
    \/ GroupSkipUsed
    \/ GroupSeed
    \/ FilterGroup
    \/ Return

Spec == Init /\ [][Next]_vars

-----------------------------------------------------------------------------
(* detect_sessions: reductions over windows of the load table *)

\* the result of Series.min() / Series.max(): a number, or nan on an empty slice
NaN == [nan |-> TRUE, v |-> 0]
Num(x) == [nan |-> FALSE, v |-> x]

\* df.loc[lo:hi, max_kw_column]: the values of the rows with lo <= time <= hi
Window(lo, hi) == {df.load[t] : t \in {x \in DOMAIN df.load : lo <= x /\ x <= hi}}

\* the minimum with 0 standing for an empty slice
SeriesMinZeroOnEmpty(S) == IF S = {} THEN Num(0) ELSE Num(MinOf(S))

SeriesMin(S) == IF S = {} THEN NaN ELSE Num(MinOf(S))
SeriesMax(S) == IF S = {} THEN NaN ELSE Num(MaxOf(S))

\* a - b and a > threshold on floats: nan propagates, and compares false
Minus(a, b) == IF a.nan \/ b.nan THEN NaN ELSE Num(a.v - b.v)
Exceeds(a, th) == ~a.nan /\ a.v > th

\* lines 32-37
BeforeLoad(bkp) == SeriesMin(Window(bkp - Hours(WindowHours), bkp))
AfterLoad(bkp) == SeriesMax(Window(bkp, bkp + Hours(WindowHours)))

\* the same reduction taking the largest value of the window
AfterEndLoadByMax(next_bkp) == SeriesMax(Window(next_bkp, next_bkp + Hours(WindowHours)))

\* lines 49-50
AfterEndLoad(next_bkp) == SeriesMin(Window(next_bkp, next_bkp + Hours(WindowHours)))

\* no test of the duration
DurationUnchecked(session_duration) == TRUE

\* line 56: session_duration <= pd.Timedelta(hours=24)
DurationOk(session_duration) == session_duration <= Hours(MaxSessionHours)

\* lines 32-57 for the breakpoint at position x (1-based): is a session appended
SessionFound(x) ==
    LET bkp == aggregated_breakpoints[x]
        before_load == BeforeLoad(bkp)
        after_load == AfterLoad(bkp)
    IN /\ Exceeds(Minus(after_load, before_load), threshold)
       /\ x + 1 <= Len(aggregated_breakpoints)
       /\ LET next_bkp == aggregated_breakpoints[x + 1]
              after_end_load == AfterEndLoad(next_bkp)
          IN /\ Exceeds(Minus(after_load, after_end_load), threshold)
             /\ DurationOk(next_bkp - bkp)

-----------------------------------------------------------------------------
(* detect_sessions: the inputs tried *)

KwLevels == {3, 8}
Thresholds == {1, 5}

\* the hours at which the load table may hold a row: the first ones, and one
\* hour exactly 24 hours after the last of them
LoadHours == (0 .. MaxHour) \cup {MaxSessionHours + MaxHour}
LoadTicks == {Hours(h) : h \in LoadHours}

LoadTables ==
    {[axis |-> TRUE, load |-> f] :
        f \in UNION {[T -> KwLevels] : T \in SUBSET LoadTicks}}
    \cup {[axis |-> FALSE, load |-> <<>>]}

BreakpointLists == UNION {[1 .. n -> LoadTicks] : n \in 0 .. MaxBkps}

InitSess ==
    /\ pc = "s_start"
    /\ df \in LoadTables
    /\ threshold \in Thresholds
    /\ aggregated_breakpoints \in BreakpointLists
    /\ contrib_features_dict =
          [t \in Range(aggregated_breakpoints) |-> Range(FeatureNames)]
    /\ features_df = NoTable
    /\ method = "pelt"
    /\ min_size_hours = 2
    /\ merge_tolerance_hours = 4
    /\ n_contributing_features = 2
    /\ InitLocals

-----------------------------------------------------------------------------
(* detect_sessions: the steps *)

cpLocals == <<col, detected, breakpoints_per_feature, bkp_records, used, i,
              aggregated_groups, gi>>

\* lines 23-27: the datetime axis
SessCheckIndex ==
    /\ pc = "s_start"
    /\ IF df.axis
       THEN /\ pc' = "scan"
            /\ raised' = raised
       ELSE /\ pc' = "error"
            /\ raised' = "ValueError"
    /\ UNCHANGED <<cpVars, cpLocals, aggregated_breakpoints, contrib_features_dict,
                   sessVars>>

\* one pass of the loop that, having appended a session, moves past its end
ScanStepConsumingEnd ==
    /\ pc = "scan"
    /\ si <= Len(aggregated_breakpoints)
    /\ IF SessionFound(si)
       THEN /\ sessions' = Append(sessions, <<aggregated_breakpoints[si],
                                              aggregated_breakpoints[si + 1]>>)
            /\ si' = si + 2
       ELSE /\ sessions' = sessions
            /\ si' = si + 1
    /\ UNCHANGED <<pc, raised, cpVars, cpLocals, aggregated_breakpoints,
                   contrib_features_dict, df, threshold>>

\* lines 30-57: one pass of the loop over the breakpoints
ScanStep ==
    /\ pc = "scan"
    /\ si <= Len(aggregated_breakpoints)
    /\ sessions' = IF SessionFound(si)
                   THEN Append(sessions, <<aggregated_breakpoints[si],
                                           aggregated_breakpoints[si + 1]>>)
                   ELSE sessions
    /\ si' = si + 1
    /\ UNCHANGED <<pc, raised, cpVars, cpLocals, aggregated_breakpoints,
                   contrib_features_dict, df, threshold>>

\* line 59
SessReturn ==
    /\ pc = "scan"
    /\ si > Len(aggregated_breakpoints)
    /\ pc' = "s_done"
    /\ UNCHANGED <<raised, cpVars, cpLocals, aggregated_breakpoints,
                   contrib_features_dict, sessVars>>

NextSess ==
    \/ SessCheckIndex
    \/ ScanStep
    \/ SessReturn

SpecSess == InitSess /\ [][NextSess]_vars

-----------------------------------------------------------------------------
(* Properties of detect_changepoints *)

Finished == pc \in {"done", "error"}

DistinctFeatures(group) == Cardinality({group[x].feat : x \in DOMAIN group})

\* C2: the consensus breakpoints are in ascending order of timestamp: no
\* emitted median is smaller than a median emitted before it.
C2_ConsensusAscending ==
    \A a, b \in DOMAIN aggregated_breakpoints :
        a < b => aggregated_breakpoints[a] <= aggregated_breakpoints[b]

C2_Witness ==
    /\ pc = "done"
    /\ Len(aggregated_breakpoints) >= 2
    /\ merge_tolerance_hours > 0
    /\ \E q \in DOMAIN aggregated_groups : Len(aggregated_groups[q]) >= 2

\* C3: a group is emitted if and only if the number of distinct feature names
\* among its members reaches n_contributing_features; it is then filed in the
\* attribution map under its median with exactly those features.
C3_EmittedIffEnoughFeatures ==
    LET seen == {q \in DOMAIN aggregated_groups : q < gi}
        enough == {q \in seen :
                      DistinctFeatures(aggregated_groups[q]) >= n_contributing_features}
    IN /\ Len(aggregated_breakpoints) = Cardinality(enough)
       /\ \A q \in seen :
             LET m == Median(Timestamps(aggregated_groups[q]))
             IN (m \in Range(aggregated_breakpoints)) <=> (q \in enough)
       /\ \A q \in enough :
             LET m == Median(Timestamps(aggregated_groups[q]))
             IN /\ m \in DOMAIN contrib_features_dict
                /\ contrib_features_dict[m] =
                      {aggregated_groups[q][x].feat : x \in DOMAIN aggregated_groups[q]}

\* a group of two breakpoints of one feature is dropped while a group fed by
\* both features is emitted
C3_Witness ==
    /\ pc = "done"
    /\ n_contributing_features = 2
    /\ \E q \in DOMAIN aggregated_groups :
          /\ Len(aggregated_groups[q]) >= 2
          /\ DistinctFeatures(aggregated_groups[q]) = 1
    /\ Len(aggregated_breakpoints) >= 1

\* C4: with the same raw breakpoints and tolerance, the aggregation run with
\* n_contributing_features + 1 returns a subset of what the run with
\* n_contributing_features returned, and no more breakpoints.
C4_ThresholdMonotone ==
    pc = "done" =>
        LET higher == Aggregate(breakpoints_per_feature, merge_tolerance_hours,
                                n_contributing_features + 1)
        IN /\ Range(higher) \subseteq Range(aggregated_breakpoints)
           /\ Len(higher) <= Len(aggregated_breakpoints)

C4_Witness ==
    /\ pc = "done"
    /\ LET higher == Aggregate(breakpoints_per_feature, merge_tolerance_hours,
                               n_contributing_features + 1)
       IN /\ higher # <<>>
          /\ Len(higher) < Len(aggregated_breakpoints)

AllColumnsSkipped ==
    /\ features_df.columns # <<>>
    /\ \A x \in DOMAIN features_df.columns :
          Cardinality(features_df.notna[features_df.columns[x]]) < 2 * min_size_hours

EmptyOutputs ==
    /\ pc = "done"
    /\ raised = "none"
    /\ aggregated_breakpoints = <<>>
    /\ DOMAIN contrib_features_dict = {}

\* C5 as stated: an empty table, or a table whose columns are all skipped,
\* ends in an empty consensus list and an empty attribution map, without error.
C5_EmptyInputEmptyOutput ==
    (Finished /\ (features_df.nrows = 0 \/ AllColumnsSkipped)) => EmptyOutputs

\* C5, amended: the same for a table that has a datetime axis.
C5_EmptyInputWithAxisEmptyOutput ==
    (Finished /\ features_df.axis /\ (features_df.nrows = 0 \/ AllColumnsSkipped))
        => EmptyOutputs

\* a table of several rows whose columns were all skipped has been answered
C5_Witness ==
    /\ pc = "done"
    /\ features_df.axis
    /\ features_df.nrows > 0
    /\ AllColumnsSkipped
    /\ EmptyOutputs

\* C6: on a table with a datetime axis, a call with a method outside
\* {pelt, binseg, window, bottomup} never returns a result.
C6_UnknownMethodAborts ==
    (features_df.axis /\ method \notin KnownMethods) => pc # "done"

PosOf(r) == CHOOSE x \in DOMAIN bkp_records : bkp_records[x] = r

GroupedBefore(q) == UNION {Range(aggregated_groups[p]) : p \in 1 .. q - 1}

\* C7: each group is seeded by the first record not yet grouped and holds
\* exactly the later records, not yet grouped, whose timestamp is within the
\* tolerance of the seed's; once grouping is over every record is in exactly
\* one group.
C7_SeedAnchoredGroups ==
    /\ \A q \in DOMAIN aggregated_groups :
          LET seed == aggregated_groups[q][1]
              free == {x \in DOMAIN bkp_records : bkp_records[x] \notin GroupedBefore(q)}
          IN /\ PosOf(seed) = MinOf(free)
             /\ Range(aggregated_groups[q]) =
                   {bkp_records[x] : x \in
                       {y \in free : /\ y >= PosOf(seed)
                                     /\ Abs(bkp_records[y].t - seed.t) <= ToleranceMerge}}
             /\ \A x \in DOMAIN aggregated_groups[q] :
                   Abs(aggregated_groups[q][x].t - seed.t) <= ToleranceMerge
    /\ \A p, q \in DOMAIN aggregated_groups :
          p # q => Range(aggregated_groups[p]) \cap Range(aggregated_groups[q]) = {}
    /\ pc \in {"filter", "done"} =>
          /\ UNION {Range(aggregated_groups[q]) : q \in DOMAIN aggregated_groups}
                = Range(bkp_records)
          /\ \A x \in DOMAIN bkp_records :
                Cardinality({q \in DOMAIN aggregated_groups :
                                \E y \in DOMAIN aggregated_groups[q] :
                                   aggregated_groups[q][y] = bkp_records[x]}) = 1

\* a record within the tolerance of a member of a group, but farther than the
\* tolerance from its seed, sits in a later group
C7_Witness ==
    /\ pc = "done"
    /\ \E q \in DOMAIN aggregated_groups :
          \E x \in DOMAIN aggregated_groups[q] :
             \E r \in Range(bkp_records) :
                /\ r \notin Range(aggregated_groups[q])
                /\ r \notin GroupedBefore(q)
                /\ Abs(r.t - aggregated_groups[q][x].t) <= ToleranceMerge
                /\ Abs(r.t - aggregated_groups[q][1].t) > ToleranceMerge

\* C8: every raw breakpoint of a column carries the timestamp of the sample,
\* among the column's retained samples, that the detector index points at.
C8_TimestampOfRetainedSample ==
    \A x \in DOMAIN breakpoints_per_feature :
        \A k \in DOMAIN breakpoints_per_feature[x].bkps :
            breakpoints_per_feature[x].bkps[k] =
                BkpTimestampOwnAxis(detected[x].feat, detected[x].result[k])

-----------------------------------------------------------------------------
(* Properties of detect_sessions *)

StrictlyAscending(s) == \A a, b \in DOMAIN s : a < b => s[a] < s[b]

ValidSession(s) ==
    /\ s[1] < s[2]
    /\ s[2] - s[1] <= 48
    /\ s[1] \in Range(aggregated_breakpoints)
    /\ s[2] \in Range(aggregated_breakpoints)

\* C1 as stated: whatever list of breakpoints is passed in, every session
\* (s, e) has s < e, e - s <= 24 hours, and s and e taken from the list.
C1_SessionsValid ==
    \A x \in DOMAIN sessions : ValidSession(sessions[x])

\* C1, amended: the same for a list of breakpoints in strictly ascending order,
\* as detect_changepoints returns it.
C1_SessionsValidOnAscendingInput ==
    StrictlyAscending(aggregated_breakpoints) =>
        \A x \in DOMAIN sessions : ValidSession(sessions[x])

\* a session lasting exactly 24 hours has been returned
C1_Witness ==
    /\ pc = "s_done"
    /\ StrictlyAscending(aggregated_breakpoints)
    /\ \E x \in DOMAIN sessions : sessions[x][2] - sessions[x][1] = 48

\* the values of the peak column in the two hours before b, and after b
RowsBefore(b) == {t \in DOMAIN df.load : b - 4 <= t /\ t <= b}
RowsAfter(b) == {t \in DOMAIN df.load : b <= t /\ t <= b + 4}

\* the three load tests and the duration test for the breakpoint at position x
Qualifies(x) ==
    /\ x + 1 \in DOMAIN aggregated_breakpoints
    /\ LET b == aggregated_breakpoints[x]
           nb == aggregated_breakpoints[x + 1]
       IN /\ \E hi \in RowsAfter(b) :
                /\ \A t \in RowsAfter(b) : df.load[t] <= df.load[hi]
                /\ \E lo \in RowsBefore(b) :
                      /\ \A t \in RowsBefore(b) : df.load[lo] <= df.load[t]
                      /\ df.load[hi] - df.load[lo] > threshold
                /\ \E el \in RowsAfter(nb) :
                      /\ \A t \in RowsAfter(nb) : df.load[el] <= df.load[t]
                      /\ df.load[hi] - df.load[el] > threshold
          /\ nb - b <= 48

RECURSIVE QualifyingPairs(_)
QualifyingPairs(n) ==
    IF n = 0 THEN <<>>
    ELSE IF Qualifies(n)
         THEN Append(QualifyingPairs(n - 1),
                     <<aggregated_breakpoints[n], aggregated_breakpoints[n + 1]>>)
         ELSE QualifyingPairs(n - 1)

C10_EndNotConsumed ==
    /\ [][si' # si => si' = si + 1]_vars
    /\ [][sessions' # sessions =>
            /\ sessions' = Append(sessions, <<aggregated_breakpoints[si],
                                              aggregated_breakpoints[si + 1]>>)
            /\ si' = si + 1
            /\ pc' = "scan"
            /\ si' <= Len(aggregated_breakpoints')]_vars

\* two sessions returned, the second starting where the first ends
C10_Witness ==
    /\ pc = "s_done"
    /\ \E x \in DOMAIN sessions :
          /\ x + 1 \in DOMAIN sessions
          /\ sessions[x][2] = sessions[x + 1][1]
          /\ sessions[x][1] < sessions[x][2]

\* one of the windows read for the breakpoint at position x holds no row of
\* the load table: the two hours before it, the two hours after it, or the
\* two hours after the next breakpoint
EmptyWindowAt(x) ==
    \/ RowsBefore(aggregated_breakpoints[x]) = {}
    \/ RowsAfter(aggregated_breakpoints[x]) = {}
    \/ /\ x + 1 \in DOMAIN aggregated_breakpoints
       /\ RowsAfter(aggregated_breakpoints[x + 1]) = {}

\* C11: a pass of the scan over a breakpoint with an empty load window appends
\* no session, raises nothing, and leaves the scan at the next breakpoint.
C11_EmptyWindowFailsClosed ==
    [][(si' # si /\ EmptyWindowAt(si)) =>
          /\ sessions' = sessions
          /\ raised' = "none"
          /\ pc' = "scan"
          /\ si' = si + 1]_vars

\* the window before the first breakpoint was empty although the load is high
\* after it; nothing was raised and the scan went on to return a later session
C11_Witness ==
    /\ pc = "s_done"
    /\ raised = "none"
    /\ Len(aggregated_breakpoints) = 3
    /\ RowsBefore(aggregated_breakpoints[1]) = {}
    /\ \E t \in RowsAfter(aggregated_breakpoints[1]) : df.load[t] > threshold
    /\ sessions = <<<<aggregated_breakpoints[2], aggregated_breakpoints[3]>>>>

====
